---- MODULE Spec2Model ----
(***************************************************************************)
(* Model of scripts/generate_large_pdf.py: the stress-test PDF generator.  *)
(*                                                                         *)
(* Lengths are integers in hundredths of a PDF point (1 mm = 283 units).  *)
(* The canvas (reportlab) is modelled by the sequence of commands it       *)
(* receives; each functools.lru_cache by its recency-ordered entry list.   *)
(* Three specifications share the module: Spec (a whole run of main),     *)
(* SpecWrap (wrap_lines on bounded texts), SpecSize (page_size_for).       *)
(***************************************************************************)
EXTENDS Integers, Sequences, FiniteSets, TLC

VARIABLES
    args,        \* the parsed command line (argparse namespace) and the host's Pillow
    img_cfg,     \* the resolved ImageConfig of main
    pc,          \* position of main
    i,           \* loop variable of main
    canvas,      \* commands received by the canvas, in order
    imgCache,    \* lru_cache of _make_image_reader, least recently used first
    figCache,    \* lru_cache of _figure_variants
    rectCache,   \* lru_cache of _rects_for_size
    posCache,    \* lru_cache of _image_positions
    imgGen,      \* keys with which the body of _make_image_reader ran, in order
    figGen,      \* keys with which the body of _figure_variants ran, in order
    wh,          \* locals w, h of main
    pillowChecked, \* whether _require_pillow was called
    wrapText, wrapMax, wrapOut, wrapDone,   \* wrap_lines: input, budget, lines
    sizeVary, sizeSeen                      \* page_size_for over successive indices

runVars  == <<args, img_cfg, pc, i, wh, canvas, imgCache, figCache, rectCache,
              posCache, imgGen, figGen, pillowChecked>>
wrapVars == <<wrapText, wrapMax, wrapOut, wrapDone>>
sizeVars == <<sizeVary, sizeSeen>>
vars     == <<runVars, wrapVars, sizeVars>>

----------------------------------------------------------------------------
(* Bounds of the model *)

MaxPages    == 5    \* --pages in the broad configurations
MaxPerPage  == 2    \* --images-per-page in the broad configurations
MaxVariants == 3    \* --image-variants in the broad configurations
LongPages   == 10   \* --pages in the long runs with more variants than cache slots
LongPerPage == 3    \* --images-per-page in the long runs
MaxTextLen  == 8    \* characters of the text given to wrap_lines
MaxChars    == 3    \* max_chars given to wrap_lines
MaxIndex    == 60   \* page indices given to page_size_for
FigComplexity == 2  \* --figure-complexity when figures are on
ImagePxArg  == 32   \* --image-px

Seeds == {0, 1}     \* --seed

(* Program constants *)

ImgCacheMaxsize == 8    \* @lru_cache(maxsize=8) of _make_image_reader
FigCacheMaxsize == 8    \* @lru_cache(maxsize=8) of _figure_variants
RectCacheMaxsize == 8   \* @lru_cache(maxsize=8) of _rects_for_size
PosCacheMaxsize == 8    \* @lru_cache(maxsize=8) of _image_positions
FigVariants == 4        \* _figure_variants(w, h, complexity, 4, seed)
NRects == 80            \* n_rects
FontSize == 11          \* --font-size default
MinImagePx == 64        \* px=max(64, args.image_px)
Margin == 4252          \* 15 * mm

Min(a, b) == IF a < b THEN a ELSE b
Max(a, b) == IF a > b THEN a ELSE b
Range(s) == {s[n] : n \in 1..Len(s)}

----------------------------------------------------------------------------
(* random.Random(rngseed): the first five results of successive            *)
(* randrange(n) calls, tabulated from CPython's Mersenne Twister.          *)
(* RandrangeRun: the calls follow each other (fast mode, line 313 only).   *)
(* RandrangeSpaced: three uniform() draws follow each call (slow mode,     *)
(* lines 322, 328, 329).  Keys are <<rngseed, n>>.                         *)

\* --seed 0, pages 0..12
RandrangeRunSeed0 ==
    <<0, 1>> :> <<0, 0, 0, 0, 0>> @@ <<0, 2>> :> <<1, 1, 0, 1, 1>> @@ <<0, 3>> :> <<1, 1, 0, 1, 2>> @@
    <<0, 4>> :> <<3, 3, 0, 2, 3>> @@ <<0, 9>> :> <<6, 6, 0, 4, 8>> @@ <<0, 10>> :> <<6, 6, 0, 4, 8>> @@
    <<7919, 1>> :> <<0, 0, 0, 0, 0>> @@ <<7919, 2>> :> <<1, 0, 1, 1, 1>> @@ <<7919, 3>> :> <<2, 1, 0, 1, 1>> @@
    <<7919, 4>> :> <<3, 1, 2, 3, 3>> @@ <<7919, 9>> :> <<7, 2, 5, 7, 6>> @@ <<7919, 10>> :> <<7, 2, 5, 7, 6>> @@
    <<15838, 1>> :> <<0, 0, 0, 0, 0>> @@ <<15838, 2>> :> <<0, 0, 0, 0, 1>> @@ <<15838, 3>> :> <<0, 2, 2, 2, 2>> @@
    <<15838, 4>> :> <<1, 1, 1, 0, 2>> @@ <<15838, 9>> :> <<2, 8, 8, 3, 2>> @@ <<15838, 10>> :> <<2, 8, 9, 8, 3>> @@
    <<23757, 1>> :> <<0, 0, 0, 0, 0>> @@ <<23757, 2>> :> <<1, 0, 0, 0, 0>> @@ <<23757, 3>> :> <<1, 0, 2, 2, 2>> @@
    <<23757, 4>> :> <<3, 1, 1, 0, 1>> @@ <<23757, 9>> :> <<7, 2, 8, 2, 1>> @@ <<23757, 10>> :> <<7, 2, 8, 2, 1>> @@
    <<31676, 1>> :> <<0, 0, 0, 0, 0>> @@ <<31676, 2>> :> <<1, 1, 1, 0, 1>> @@ <<31676, 3>> :> <<1, 1, 1, 2, 2>> @@
    <<31676, 4>> :> <<3, 3, 2, 1, 2>> @@ <<31676, 9>> :> <<6, 7, 4, 8, 3>> @@ <<31676, 10>> :> <<6, 7, 4, 8, 3>> @@
    <<39595, 1>> :> <<0, 0, 0, 0, 0>> @@ <<39595, 2>> :> <<1, 0, 1, 1, 0>> @@ <<39595, 3>> :> <<2, 1, 0, 1, 1>> @@
    <<39595, 4>> :> <<2, 1, 2, 3, 0>> @@ <<39595, 9>> :> <<4, 2, 5, 6, 8>> @@ <<39595, 10>> :> <<9, 4, 2, 5, 6>> @@
    <<47514, 1>> :> <<0, 0, 0, 0, 0>> @@ <<47514, 2>> :> <<0, 0, 0, 1, 1>> @@ <<47514, 3>> :> <<0, 0, 2, 0, 2>> @@
    <<47514, 4>> :> <<1, 1, 1, 2, 2>> @@ <<47514, 9>> :> <<3, 2, 3, 4, 5>> @@ <<47514, 10>> :> <<3, 2, 9, 3, 9>> @@
    <<55433, 1>> :> <<0, 0, 0, 0, 0>> @@ <<55433, 2>> :> <<0, 1, 1, 1, 0>> @@ <<55433, 3>> :> <<0, 2, 1, 1, 1>> @@
    <<55433, 4>> :> <<0, 2, 2, 3, 1>> @@ <<55433, 9>> :> <<0, 5, 5, 7, 2>> @@ <<55433, 10>> :> <<0, 5, 5, 7, 2>> @@
    <<63352, 1>> :> <<0, 0, 0, 0, 0>> @@ <<63352, 2>> :> <<1, 1, 1, 0, 0>> @@ <<63352, 3>> :> <<2, 1, 2, 2, 2>> @@
    <<63352, 4>> :> <<3, 3, 3, 0, 0>> @@ <<63352, 9>> :> <<6, 8, 8, 6, 7>> @@ <<63352, 10>> :> <<6, 9, 8, 8, 6>> @@
    <<71271, 1>> :> <<0, 0, 0, 0, 0>> @@ <<71271, 2>> :> <<1, 1, 0, 0, 1>> @@ <<71271, 3>> :> <<1, 1, 0, 0, 1>> @@
    <<71271, 4>> :> <<2, 2, 0, 1, 2>> @@ <<71271, 9>> :> <<5, 5, 1, 3, 5>> @@ <<71271, 10>> :> <<5, 5, 1, 3, 5>> @@
    <<79190, 1>> :> <<0, 0, 0, 0, 0>> @@ <<79190, 2>> :> <<1, 0, 1, 0, 0>> @@ <<79190, 3>> :> <<2, 1, 0, 1, 0>> @@
    <<79190, 4>> :> <<3, 1, 3, 1, 1>> @@ <<79190, 9>> :> <<7, 3, 6, 3, 2>> @@ <<79190, 10>> :> <<7, 3, 6, 3, 2>> @@
    <<87109, 1>> :> <<0, 0, 0, 0, 0>> @@ <<87109, 2>> :> <<1, 0, 0, 1, 1>> @@ <<87109, 3>> :> <<1, 0, 0, 1, 2>> @@
    <<87109, 4>> :> <<3, 0, 1, 3, 2>> @@ <<87109, 9>> :> <<6, 1, 3, 6, 5>> @@ <<87109, 10>> :> <<6, 1, 3, 6, 9>> @@
    <<95028, 1>> :> <<0, 0, 0, 0, 0>> @@ <<95028, 2>> :> <<0, 1, 1, 0, 1>> @@ <<95028, 3>> :> <<0, 2, 2, 1, 1>> @@
    <<95028, 4>> :> <<0, 3, 2, 1, 2>> @@ <<95028, 9>> :> <<1, 7, 4, 2, 4>> @@ <<95028, 10>> :> <<1, 9, 7, 4, 2>>

\* --seed 1, pages 0..12
RandrangeRunSeed1 ==
    <<1, 1>> :> <<0, 0, 0, 0, 0>> @@ <<1, 2>> :> <<0, 0, 1, 0, 1>> @@ <<1, 3>> :> <<0, 2, 0, 1, 0>> @@
    <<1, 4>> :> <<1, 0, 2, 0, 3>> @@ <<1, 9>> :> <<2, 1, 4, 1, 7>> @@ <<1, 10>> :> <<2, 9, 1, 4, 1>> @@
    <<7920, 1>> :> <<0, 0, 0, 0, 0>> @@ <<7920, 2>> :> <<0, 0, 1, 0, 0>> @@ <<7920, 3>> :> <<0, 0, 1, 0, 2>> @@
    <<7920, 4>> :> <<1, 1, 3, 1, 0>> @@ <<7920, 9>> :> <<2, 3, 7, 3, 1>> @@ <<7920, 10>> :> <<2, 3, 7, 3, 1>> @@
    <<15839, 1>> :> <<0, 0, 0, 0, 0>> @@ <<15839, 2>> :> <<1, 0, 1, 1, 1>> @@ <<15839, 3>> :> <<1, 0, 1, 2, 1>> @@
    <<15839, 4>> :> <<3, 1, 3, 3, 2>> @@ <<15839, 9>> :> <<6, 2, 6, 7, 4>> @@ <<15839, 10>> :> <<6, 2, 6, 9, 7>> @@
    <<23758, 1>> :> <<0, 0, 0, 0, 0>> @@ <<23758, 2>> :> <<0, 1, 0, 0, 0>> @@ <<23758, 3>> :> <<0, 1, 0, 0, 0>> @@
    <<23758, 4>> :> <<0, 3, 0, 0, 0>> @@ <<23758, 9>> :> <<0, 6, 0, 1, 0>> @@ <<23758, 10>> :> <<0, 6, 0, 1, 0>> @@
    <<31677, 1>> :> <<0, 0, 0, 0, 0>> @@ <<31677, 2>> :> <<0, 1, 1, 0, 1>> @@ <<31677, 3>> :> <<2, 0, 1, 2, 1>> @@
    <<31677, 4>> :> <<1, 2, 2, 1, 2>> @@ <<31677, 9>> :> <<2, 5, 5, 3, 5>> @@ <<31677, 10>> :> <<2, 5, 9, 5, 3>> @@
    <<39596, 1>> :> <<0, 0, 0, 0, 0>> @@ <<39596, 2>> :> <<1, 1, 1, 1, 1>> @@ <<39596, 3>> :> <<1, 1, 1, 1, 1>> @@
    <<39596, 4>> :> <<3, 2, 3, 3, 3>> @@ <<39596, 9>> :> <<6, 5, 6, 6, 7>> @@ <<39596, 10>> :> <<6, 5, 6, 6, 7>> @@
    <<47515, 1>> :> <<0, 0, 0, 0, 0>> @@ <<47515, 2>> :> <<1, 0, 0, 0, 0>> @@ <<47515, 3>> :> <<1, 0, 0, 0, 0>> @@
    <<47515, 4>> :> <<3, 1, 0, 0, 0>> @@ <<47515, 9>> :> <<7, 3, 1, 1, 0>> @@ <<47515, 10>> :> <<7, 3, 1, 1, 0>> @@
    <<55434, 1>> :> <<0, 0, 0, 0, 0>> @@ <<55434, 2>> :> <<0, 0, 0, 0, 1>> @@ <<55434, 3>> :> <<0, 2, 0, 2, 0>> @@
    <<55434, 4>> :> <<0, 0, 1, 0, 2>> @@ <<55434, 9>> :> <<1, 1, 3, 1, 4>> @@ <<55434, 10>> :> <<1, 1, 3, 1, 4>> @@
    <<63353, 1>> :> <<0, 0, 0, 0, 0>> @@ <<63353, 2>> :> <<0, 0, 0, 1, 0>> @@ <<63353, 3>> :> <<0, 0, 0, 1, 0>> @@
    <<63353, 4>> :> <<1, 1, 0, 2, 0>> @@ <<63353, 9>> :> <<3, 3, 1, 5, 1>> @@ <<63353, 10>> :> <<3, 3, 1, 5, 1>> @@
    <<71272, 1>> :> <<0, 0, 0, 0, 0>> @@ <<71272, 2>> :> <<1, 1, 1, 1, 1>> @@ <<71272, 3>> :> <<1, 1, 2, 1, 2>> @@
    <<71272, 4>> :> <<2, 2, 2, 2, 3>> @@ <<71272, 9>> :> <<4, 5, 4, 5, 7>> @@ <<71272, 10>> :> <<4, 5, 9, 4, 5>> @@
    <<79191, 1>> :> <<0, 0, 0, 0, 0>> @@ <<79191, 2>> :> <<1, 1, 1, 1, 1>> @@ <<79191, 3>> :> <<1, 1, 1, 2, 1>> @@
    <<79191, 4>> :> <<3, 2, 2, 2, 2>> @@ <<79191, 9>> :> <<7, 4, 4, 4, 5>> @@ <<79191, 10>> :> <<7, 4, 4, 4, 5>> @@
    <<87110, 1>> :> <<0, 0, 0, 0, 0>> @@ <<87110, 2>> :> <<1, 0, 0, 0, 1>> @@ <<87110, 3>> :> <<1, 0, 0, 2, 0>> @@
    <<87110, 4>> :> <<2, 0, 1, 0, 2>> @@ <<87110, 9>> :> <<5, 0, 2, 1, 5>> @@ <<87110, 10>> :> <<5, 0, 2, 9, 1>> @@
    <<95029, 1>> :> <<0, 0, 0, 0, 0>> @@ <<95029, 2>> :> <<1, 0, 1, 0, 1>> @@ <<95029, 3>> :> <<1, 2, 0, 1, 0>> @@
    <<95029, 4>> :> <<2, 0, 2, 1, 3>> @@ <<95029, 9>> :> <<5, 8, 0, 5, 2>> @@ <<95029, 10>> :> <<5, 8, 0, 5, 2>>

RandrangeRun == RandrangeRunSeed0 @@ RandrangeRunSeed1

\* --seed 0, pages 0..12
RandrangeSpacedSeed0 ==
    <<0, 1>> :> <<0, 0, 0, 0, 0>> @@ <<0, 2>> :> <<1, 1, 1, 0, 1>> @@ <<0, 3>> :> <<1, 2, 1, 0, 1>> @@
    <<0, 4>> :> <<3, 3, 3, 1, 2>> @@ <<0, 9>> :> <<6, 8, 7, 2, 4>> @@ <<0, 10>> :> <<6, 8, 7, 2, 4>> @@
    <<7919, 1>> :> <<0, 0, 0, 0, 0>> @@ <<7919, 2>> :> <<1, 1, 0, 0, 0>> @@ <<7919, 3>> :> <<2, 1, 2, 2, 2>> @@
    <<7919, 4>> :> <<3, 3, 1, 0, 0>> @@ <<7919, 9>> :> <<7, 6, 8, 8, 1>> @@ <<7919, 10>> :> <<7, 6, 8, 8, 1>> @@
    <<15838, 1>> :> <<0, 0, 0, 0, 0>> @@ <<15838, 2>> :> <<0, 0, 1, 0, 0>> @@ <<15838, 3>> :> <<0, 0, 1, 0, 2>> @@
    <<15838, 4>> :> <<1, 1, 3, 0, 0>> @@ <<15838, 9>> :> <<2, 3, 6, 0, 1>> @@ <<15838, 10>> :> <<2, 3, 6, 0, 9>> @@
    <<23757, 1>> :> <<0, 0, 0, 0, 0>> @@ <<23757, 2>> :> <<1, 0, 0, 1, 1>> @@ <<23757, 3>> :> <<1, 2, 0, 1, 2>> @@
    <<23757, 4>> :> <<3, 1, 1, 2, 2>> @@ <<23757, 9>> :> <<7, 8, 1, 5, 4>> @@ <<23757, 10>> :> <<7, 8, 1, 5, 4>> @@
    <<31676, 1>> :> <<0, 0, 0, 0, 0>> @@ <<31676, 2>> :> <<1, 1, 0, 0, 1>> @@ <<31676, 3>> :> <<1, 1, 0, 0, 1>> @@
    <<31676, 4>> :> <<3, 2, 0, 1, 2>> @@ <<31676, 9>> :> <<6, 5, 1, 3, 5>> @@ <<31676, 10>> :> <<6, 5, 1, 3, 5>> @@
    <<39595, 1>> :> <<0, 0, 0, 0, 0>> @@ <<39595, 2>> :> <<1, 0, 1, 0, 0>> @@ <<39595, 3>> :> <<2, 2, 0, 2, 2>> @@
    <<39595, 4>> :> <<2, 0, 3, 1, 0>> @@ <<39595, 9>> :> <<4, 1, 6, 2, 1>> @@ <<39595, 10>> :> <<9, 8, 3, 9, 9>> @@
    <<47514, 1>> :> <<0, 0, 0, 0, 0>> @@ <<47514, 2>> :> <<0, 1, 1, 1, 1>> @@ <<47514, 3>> :> <<0, 1, 1, 1, 1>> @@
    <<47514, 4>> :> <<1, 3, 2, 2, 3>> @@ <<47514, 9>> :> <<3, 6, 5, 4, 7>> @@ <<47514, 10>> :> <<3, 6, 5, 4, 7>> @@
    <<55433, 1>> :> <<0, 0, 0, 0, 0>> @@ <<55433, 2>> :> <<0, 1, 1, 1, 1>> @@ <<55433, 3>> :> <<0, 1, 1, 2, 1>> @@
    <<55433, 4>> :> <<0, 3, 2, 3, 2>> @@ <<55433, 9>> :> <<0, 6, 5, 6, 4>> @@ <<55433, 10>> :> <<0, 6, 5, 9, 4>> @@
    <<63352, 1>> :> <<0, 0, 0, 0, 0>> @@ <<63352, 2>> :> <<1, 1, 1, 0, 0>> @@ <<63352, 3>> :> <<2, 1, 1, 0, 0>> @@
    <<63352, 4>> :> <<3, 3, 2, 1, 1>> @@ <<63352, 9>> :> <<6, 7, 5, 3, 3>> @@ <<63352, 10>> :> <<6, 7, 5, 3, 3>> @@
    <<71271, 1>> :> <<0, 0, 0, 0, 0>> @@ <<71271, 2>> :> <<1, 1, 1, 1, 0>> @@ <<71271, 3>> :> <<1, 1, 1, 1, 2>> @@
    <<71271, 4>> :> <<2, 2, 2, 3, 1>> @@ <<71271, 9>> :> <<5, 5, 5, 7, 3>> @@ <<71271, 10>> :> <<5, 5, 5, 7, 3>> @@
    <<79190, 1>> :> <<0, 0, 0, 0, 0>> @@ <<79190, 2>> :> <<1, 1, 1, 0, 0>> @@ <<79190, 3>> :> <<2, 2, 1, 2, 0>> @@
    <<79190, 4>> :> <<3, 2, 2, 0, 0>> @@ <<79190, 9>> :> <<7, 4, 5, 8, 3>> @@ <<79190, 10>> :> <<7, 4, 9, 8, 3>> @@
    <<87109, 1>> :> <<0, 0, 0, 0, 0>> @@ <<87109, 2>> :> <<1, 1, 1, 0, 0>> @@ <<87109, 3>> :> <<1, 1, 1, 0, 2>> @@
    <<87109, 4>> :> <<3, 2, 3, 1, 0>> @@ <<87109, 9>> :> <<6, 5, 7, 3, 0>> @@ <<87109, 10>> :> <<6, 5, 7, 3, 9>> @@
    <<95028, 1>> :> <<0, 0, 0, 0, 0>> @@ <<95028, 2>> :> <<0, 1, 1, 1, 1>> @@ <<95028, 3>> :> <<0, 1, 1, 1, 2>> @@
    <<95028, 4>> :> <<0, 2, 2, 2, 2>> @@ <<95028, 9>> :> <<1, 4, 4, 4, 4>> @@ <<95028, 10>> :> <<1, 4, 4, 4, 9>>

\* --seed 1, pages 0..12
RandrangeSpacedSeed1 ==
    <<1, 1>> :> <<0, 0, 0, 0, 0>> @@ <<1, 2>> :> <<0, 0, 0, 1, 1>> @@ <<1, 3>> :> <<0, 0, 0, 1, 1>> @@
    <<1, 4>> :> <<1, 0, 1, 3, 2>> @@ <<1, 9>> :> <<2, 1, 3, 6, 4>> @@ <<1, 10>> :> <<2, 1, 3, 6, 4>> @@
    <<7920, 1>> :> <<0, 0, 0, 0, 0>> @@ <<7920, 2>> :> <<0, 1, 0, 1, 0>> @@ <<7920, 3>> :> <<0, 1, 0, 1, 2>> @@
    <<7920, 4>> :> <<1, 3, 0, 3, 1>> @@ <<7920, 9>> :> <<2, 7, 0, 7, 3>> @@ <<7920, 10>> :> <<2, 7, 0, 7, 9>> @@
    <<15839, 1>> :> <<0, 0, 0, 0, 0>> @@ <<15839, 2>> :> <<1, 1, 0, 1, 0>> @@ <<15839, 3>> :> <<1, 1, 0, 1, 2>> @@
    <<15839, 4>> :> <<3, 3, 0, 2, 1>> @@ <<15839, 9>> :> <<6, 7, 1, 5, 8>> @@ <<15839, 10>> :> <<6, 7, 1, 5, 8>> @@
    <<23758, 1>> :> <<0, 0, 0, 0, 0>> @@ <<23758, 2>> :> <<0, 0, 1, 0, 1>> @@ <<23758, 3>> :> <<0, 0, 1, 2, 2>> @@
    <<23758, 4>> :> <<0, 0, 3, 0, 3>> @@ <<23758, 9>> :> <<0, 1, 6, 8, 7>> @@ <<23758, 10>> :> <<0, 1, 6, 8, 7>> @@
    <<31677, 1>> :> <<0, 0, 0, 0, 0>> @@ <<31677, 2>> :> <<0, 0, 0, 0, 1>> @@ <<31677, 3>> :> <<2, 1, 1, 0, 1>> @@
    <<31677, 4>> :> <<1, 0, 1, 1, 3>> @@ <<31677, 9>> :> <<2, 1, 2, 8, 6>> @@ <<31677, 10>> :> <<2, 1, 9, 8, 9>> @@
    <<39596, 1>> :> <<0, 0, 0, 0, 0>> @@ <<39596, 2>> :> <<1, 1, 1, 0, 1>> @@ <<39596, 3>> :> <<1, 1, 1, 0, 1>> @@
    <<39596, 4>> :> <<3, 3, 3, 1, 3>> @@ <<39596, 9>> :> <<6, 6, 6, 2, 6>> @@ <<39596, 10>> :> <<6, 6, 6, 2, 6>> @@
    <<47515, 1>> :> <<0, 0, 0, 0, 0>> @@ <<47515, 2>> :> <<1, 1, 1, 0, 0>> @@ <<47515, 3>> :> <<1, 2, 1, 0, 2>> @@
    <<47515, 4>> :> <<3, 2, 3, 1, 1>> @@ <<47515, 9>> :> <<7, 8, 6, 3, 2>> @@ <<47515, 10>> :> <<7, 8, 6, 3, 9>> @@
    <<55434, 1>> :> <<0, 0, 0, 0, 0>> @@ <<55434, 2>> :> <<0, 0, 1, 0, 0>> @@ <<55434, 3>> :> <<0, 0, 1, 2, 2>> @@
    <<55434, 4>> :> <<0, 1, 3, 0, 0>> @@ <<55434, 9>> :> <<1, 3, 7, 1, 1>> @@ <<55434, 10>> :> <<1, 3, 7, 9, 9>> @@
    <<63353, 1>> :> <<0, 0, 0, 0, 0>> @@ <<63353, 2>> :> <<0, 1, 0, 0, 0>> @@ <<63353, 3>> :> <<0, 2, 2, 2, 0>> @@
    <<63353, 4>> :> <<1, 3, 1, 1, 0>> @@ <<63353, 9>> :> <<3, 8, 4, 4, 2>> @@ <<63353, 10>> :> <<3, 8, 4, 4, 2>> @@
    <<71272, 1>> :> <<0, 0, 0, 0, 0>> @@ <<71272, 2>> :> <<1, 0, 0, 0, 1>> @@ <<71272, 3>> :> <<1, 0, 0, 0, 1>> @@
    <<71272, 4>> :> <<2, 1, 1, 0, 2>> @@ <<71272, 9>> :> <<4, 3, 3, 0, 4>> @@ <<71272, 10>> :> <<4, 3, 3, 0, 4>> @@
    <<79191, 1>> :> <<0, 0, 0, 0, 0>> @@ <<79191, 2>> :> <<1, 1, 1, 0, 1>> @@ <<79191, 3>> :> <<1, 1, 1, 0, 1>> @@
    <<79191, 4>> :> <<3, 2, 3, 0, 2>> @@ <<79191, 9>> :> <<7, 4, 7, 1, 5>> @@ <<79191, 10>> :> <<7, 4, 7, 1, 5>> @@
    <<87110, 1>> :> <<0, 0, 0, 0, 0>> @@ <<87110, 2>> :> <<1, 0, 1, 1, 0>> @@ <<87110, 3>> :> <<1, 0, 1, 1, 2>> @@
    <<87110, 4>> :> <<2, 1, 2, 3, 0>> @@ <<87110, 9>> :> <<5, 2, 4, 7, 8>> @@ <<87110, 10>> :> <<5, 2, 4, 7, 8>> @@
    <<95029, 1>> :> <<0, 0, 0, 0, 0>> @@ <<95029, 2>> :> <<1, 1, 0, 1, 0>> @@ <<95029, 3>> :> <<1, 1, 2, 0, 0>> @@
    <<95029, 4>> :> <<2, 3, 1, 2, 0>> @@ <<95029, 9>> :> <<5, 6, 8, 3, 1>> @@ <<95029, 10>> :> <<5, 6, 8, 3, 1>>

RandrangeSpaced == RandrangeSpacedSeed0 @@ RandrangeSpacedSeed1

----------------------------------------------------------------------------
(* Page geometry *)

A4 == <<59528, 84189>>       \* reportlab.lib.pagesizes.A4 = (210*mm, 297*mm)
LETTER == <<61200, 79200>>   \* reportlab.lib.pagesizes.LETTER = (8.5*inch, 11*inch)

landscape(pagesize) ==
    IF pagesize[1] < pagesize[2] THEN <<pagesize[2], pagesize[1]>> ELSE pagesize

\* faulty variant: the cycle has three steps
page_size_for_mod3(idx, vary) ==
    IF ~vary THEN A4
    ELSE LET mod == idx % 3 IN
         IF mod = 0 THEN A4
         ELSE IF mod = 1 THEN LETTER
         ELSE landscape(A4)

page_size_for(idx, vary) ==
    IF ~vary THEN A4
    ELSE LET mod == idx % 4 IN
         IF mod = 0 THEN A4
         ELSE IF mod = 1 THEN LETTER
         ELSE IF mod = 2 THEN landscape(A4)
         ELSE landscape(LETTER)

----------------------------------------------------------------------------
(* functools.lru_cache: entries [key, val], least recently used first *)

\* faulty variant: the cache is never consulted
LruNeverHit(cache, key) == FALSE

LruHit(cache, key) == \E n \in 1..Len(cache) : cache[n].key = key

LruValue(cache, key) == cache[CHOOSE n \in 1..Len(cache) : cache[n].key = key].val

\* a hit moves the entry to the most recently used end
LruTouch(cache, key) ==
    LET n == CHOOSE m \in 1..Len(cache) : cache[m].key = key
    IN  SubSeq(cache, 1, n - 1) \o SubSeq(cache, n + 1, Len(cache)) \o <<cache[n]>>

\* faulty variant: the cache holds one entry
LruStoreSingle(cache, key, val, maxsize) == <<[key |-> key, val |-> val]>>

\* a miss stores the result, dropping the least recently used entry of a full cache
LruStore(cache, key, val, maxsize) ==
    LET c == Append(cache, [key |-> key, val |-> val])
    IN  IF Len(c) > maxsize THEN Tail(c) ELSE c

----------------------------------------------------------------------------
(* The cached generators.  A generated value is the tuple of the inputs    *)
(* that its body feeds to the random stream and to the geometry.           *)

\* ImageReader of a px x px PNG drawn from random.Random(seed + variant * 10007):
\* <<variant, iw, ih, rng seed>>
make_image_reader(px, variant, seed) == <<variant, px, px, seed + variant * 10007>>

\* one <<rng seed, cx, cy, radius, grid_r, points per path>> per variant
figure_variants(w, h, complexity, variants, seed) ==
    LET cx == w \div 2
        cy == (h * 55) \div 100
        radius == (Min(w, h) * 38) \div 100
        step == Max(600, Min(w, h) \div 80)
    IN  [v \in 1..variants |->
            <<seed + (v - 1) * 137, cx, cy, radius, (step * 35) \div 100, complexity>>]

\* n_rects rectangles drawn from random.Random(seed), clamped into the w x h page
rects_for_size(w, h, seed) == <<seed, w, h, NRects>>

\* per_page placements drawn from random.Random(seed) inside the w x h page
image_positions(w, h, per_page, seed) == <<seed, w, h, per_page>>

ImgKey(px, variant, seed) == <<px, variant, seed>>
FigKey(w, h, complexity, variants, seed) == <<w, h, complexity, variants, seed>>
\* faulty variant: the page size is left out of the key
RectsKeySeedOnly(w, h, seed) == <<seed>>

RectsKey(w, h, seed) == <<w, h, seed>>
PosKey(w, h, per_page, seed) == <<w, h, per_page, seed>>

----------------------------------------------------------------------------
(* draw_page *)

Cmd(op, page, arg) == [op |-> op, page |-> page, arg |-> arg]

\* faulty variant: the page index is taken zero-based
PageRngSeedZeroBased(seed, idx) == seed + (idx - 1) * 7919

PageRngSeed(seed, idx) == seed + idx * 7919

\* variant = rng.randrange(max(1, img_cfg.variants)) for image slot idx (0-based)
PickVariant(cfg, page, idx) ==
    LET k == <<PageRngSeed(cfg.seed, page), Max(1, cfg.variants)>>
    IN  IF cfg.fast THEN RandrangeRun[k][idx + 1] ELSE RandrangeSpaced[k][idx + 1]

\* lines 226-276: title, size line, body text, chart and its label
TextAndChart(page, w, h) ==
    LET x0 == Margin
        y0 == h - Margin
        max_chars == Max(40, (w - 2 * Margin) \div (FontSize * 55))
        body_top == y0 - 4500
        chart_y == Margin + 2000
        chart_w == Min(39685, w - 2 * Margin)
        chart_h == 9921
    IN  << Cmd("title", page, <<x0, y0, page>>),
           Cmd("sizeLine", page, <<x0, y0 - 1800, w, h, FontSize>>),
           Cmd("body", page, <<x0, body_top, max_chars, Margin + 6000, FontSize * 125>>),
           Cmd("chart", page, <<x0, chart_y, chart_w, chart_h, page>>),
           Cmd("chartLabel", page, <<x0, chart_y + chart_h + 600>>) >>

\* draw_heavy_figures: the variant of the figure set that is stroked
FigureCmd(page, figs) == Cmd("figure", page, figs[(page % Len(figs)) + 1])

\* c.drawImage(img, x, y, draw_w, draw_h): the reader, then where x, y, draw_w come from
ImageCmd(cfg, page, idx, w, h, img, positions) ==
    Cmd("drawImage", page,
        img \o (IF cfg.fast THEN <<1>> \o positions \o <<idx>>
                ELSE <<0, PageRngSeed(cfg.seed, page), w, h, idx>>))

\* lines 312-330, slot idx onward; st = [cache, gen, cmds, crashed]
RECURSIVE ImageLoop(_, _, _, _, _, _, _, _)
ImageLoop(st, cfg, pillow, page, idx, w, h, positions) ==
    IF idx >= cfg.per_page \/ st.crashed THEN st
    ELSE
      LET variant == PickVariant(cfg, page, idx)
          key == ImgKey(cfg.px, variant, cfg.seed)
          hit == LruHit(st.cache, key)
      IN  IF ~hit /\ ~pillow
          THEN [st EXCEPT !.crashed = TRUE]     \* line 98: the import fails
          ELSE
            LET img == IF hit THEN LruValue(st.cache, key)
                       ELSE make_image_reader(cfg.px, variant, cfg.seed)
                cache2 == IF hit THEN LruTouch(st.cache, key)
                          ELSE LruStore(st.cache, key, img, ImgCacheMaxsize)
                gen2 == IF hit THEN st.gen ELSE Append(st.gen, key)
                st2 == [cache |-> cache2, gen |-> gen2, crashed |-> FALSE,
                        cmds |-> Append(st.cmds,
                                   ImageCmd(cfg, page, idx, w, h, img, positions))]
            IN  ImageLoop(st2, cfg, pillow, page, idx + 1, w, h, positions)

\* lines 278-286: the figure set comes from the cache of _figure_variants
FigurePart(cfg, complexity, page, w, h, cache, gen) ==
    IF complexity > 0
    THEN LET key == FigKey(w, h, complexity, FigVariants, cfg.seed)
             hit == LruHit(cache, key)
             figs == IF hit THEN LruValue(cache, key)
                     ELSE figure_variants(w, h, complexity, FigVariants, cfg.seed)
         IN  [cmds |-> <<FigureCmd(page, figs)>>,
              cache |-> IF hit THEN LruTouch(cache, key)
                        ELSE LruStore(cache, key, figs, FigCacheMaxsize),
              gen |-> IF hit THEN gen ELSE Append(gen, key)]
    ELSE [cmds |-> <<>>, cache |-> cache, gen |-> gen]

\* lines 289-302: cached per size in fast mode, drawn from random.Random(i) otherwise
RectsPart(cfg, with_rects, page, w, h, cache) ==
    IF ~with_rects THEN [cmds |-> <<>>, cache |-> cache]
    ELSE IF cfg.fast
    THEN LET key == RectsKey(w, h, cfg.seed)
             hit == LruHit(cache, key)
             rects == IF hit THEN LruValue(cache, key)
                      ELSE rects_for_size(w, h, cfg.seed)
         IN  [cmds |-> <<Cmd("rects", page, rects)>>,
              cache |-> IF hit THEN LruTouch(cache, key)
                        ELSE LruStore(cache, key, rects, RectCacheMaxsize)]
    ELSE [cmds |-> <<Cmd("rects", page, rects_for_size(w, h, page))>>, cache |-> cache]

\* lines 305-330
ImagesPart(cfg, pillow, page, w, h, icache, igen, pcache) ==
    IF cfg.enabled /\ cfg.per_page > 0
    THEN LET key == PosKey(w, h, cfg.per_page, cfg.seed)
             hit == LruHit(pcache, key)
             positions == IF ~cfg.fast THEN <<>>
                          ELSE IF hit THEN LruValue(pcache, key)
                          ELSE image_positions(w, h, cfg.per_page, cfg.seed)
             pcache2 == IF ~cfg.fast THEN pcache
                        ELSE IF hit THEN LruTouch(pcache, key)
                        ELSE LruStore(pcache, key, positions, PosCacheMaxsize)
             st == ImageLoop([cache |-> icache, gen |-> igen, cmds |-> <<>>,
                              crashed |-> FALSE],
                             cfg, pillow, page, 0, w, h, positions)
         IN  [cmds |-> st.cmds, icache |-> st.cache, igen |-> st.gen,
              pcache |-> pcache2, crashed |-> st.crashed]
    ELSE [cmds |-> <<>>, icache |-> icache, igen |-> igen, pcache |-> pcache,
          crashed |-> FALSE]

----------------------------------------------------------------------------
(* main *)

ImageConfig(a) ==
    [enabled  |-> ~a.no_images,
     per_page |-> Max(0, a.images_per_page),
     px       |-> Max(MinImagePx, a.image_px),
     variants |-> Max(1, a.image_variants),
     seed     |-> a.seed,
     fast     |-> a.fast]

BroadArgs ==
    [pages : 0..MaxPages, vary_sizes : BOOLEAN, with_rects : BOOLEAN,
     no_images : BOOLEAN, images_per_page : 0..MaxPerPage, image_px : {ImagePxArg},
     image_variants : 0..MaxVariants, figure_complexity : {0, FigComplexity},
     fast : BOOLEAN, seed : Seeds, pillow : BOOLEAN]

\* long runs that reference more image variants than the cache has slots
LongArgs ==
    [pages : {LongPages}, vary_sizes : BOOLEAN, with_rects : {FALSE},
     no_images : {FALSE}, images_per_page : {LongPerPage}, image_px : {ImagePxArg},
     image_variants : {ImgCacheMaxsize + 1}, figure_complexity : {0},
     fast : BOOLEAN, seed : Seeds, pillow : {TRUE}]

WrapIdle == wrapText = <<>> /\ wrapMax = 1 /\ wrapOut = <<>> /\ wrapDone = FALSE
SizeIdle == sizeVary = FALSE /\ sizeSeen = <<>>

\* the state of main at line 402: arguments parsed, ImageConfig built, caches empty
Init ==
    /\ args \in BroadArgs \cup LongArgs
    /\ img_cfg = ImageConfig(args)
    /\ pc = "check"
    /\ i = 0
    /\ wh = <<0, 0>>
    /\ canvas = <<>>
    /\ imgCache = <<>> /\ figCache = <<>> /\ rectCache = <<>> /\ posCache = <<>>
    /\ imgGen = <<>> /\ figGen = <<>>
    /\ pillowChecked = FALSE
    /\ WrapIdle /\ SizeIdle

\* faulty variant: the import is not attempted
RequirePillowSkipped == TRUE

\* _require_pillow returns (TRUE) or raises SystemExit (FALSE)
RequirePillow == args.pillow

\* lines 403-404
CheckPillow ==
    /\ pc = "check"
    /\ pillowChecked' = img_cfg.enabled
    /\ pc' = IF img_cfg.enabled /\ ~RequirePillow THEN "exit" ELSE "open"
    /\ UNCHANGED <<args, img_cfg, i, wh, canvas, imgCache, figCache, rectCache,
                   posCache, imgGen, figGen>>

\* lines 407-410
OpenCanvas ==
    /\ pc = "open"
    /\ wh' = page_size_for(1, args.vary_sizes)
    /\ canvas' = <<Cmd("open", 0, wh' \o <<IF args.fast THEN 0 ELSE 1>>)>>
    /\ i' = 1
    /\ pc' = "loop"
    /\ UNCHANGED <<args, img_cfg, imgCache, figCache, rectCache, posCache,
                   imgGen, figGen, pillowChecked>>

\* faulty variant: range(1, args.pages)
LoopDoneEarly(idx, pages) == idx >= pages

\* range(1, args.pages + 1) is exhausted
LoopDone(idx, pages) == idx > pages

\* lines 412-414
SetPageSize ==
    /\ pc = "loop"
    /\ ~LoopDone(i, args.pages)
    /\ wh' = page_size_for(i, args.vary_sizes)
    /\ canvas' = Append(canvas, Cmd("setPageSize", i, wh'))
    /\ pc' = "draw"
    /\ UNCHANGED <<args, img_cfg, i, imgCache, figCache, rectCache, posCache,
                   imgGen, figGen, pillowChecked>>

\* lines 415-425: draw_page
DrawPage ==
    /\ pc = "draw"
    /\ LET w == wh[1]
           h == wh[2]
           fig == FigurePart(img_cfg, args.figure_complexity, i, w, h, figCache, figGen)
           rct == RectsPart(img_cfg, args.with_rects, i, w, h, rectCache)
           img == ImagesPart(img_cfg, args.pillow, i, w, h, imgCache, imgGen, posCache)
       IN  /\ canvas' = canvas \o TextAndChart(i, w, h) \o fig.cmds \o rct.cmds
                               \o img.cmds
           /\ figCache' = fig.cache
           /\ figGen' = fig.gen
           /\ rectCache' = rct.cache
           /\ imgCache' = img.icache
           /\ imgGen' = img.igen
           /\ posCache' = img.pcache
           /\ pc' = IF img.crashed THEN "crash" ELSE "show"
    /\ UNCHANGED <<args, img_cfg, i, wh, pillowChecked>>

\* line 426, and the loop's next index
ShowPage ==
    /\ pc = "show"
    /\ canvas' = Append(canvas, Cmd("showPage", i, <<>>))
    /\ i' = i + 1
    /\ pc' = "loop"
    /\ UNCHANGED <<args, img_cfg, wh, imgCache, figCache, rectCache, posCache,
                   imgGen, figGen, pillowChecked>>

\* line 432
Save ==
    /\ pc = "loop"
    /\ LoopDone(i, args.pages)
    /\ canvas' = Append(canvas, Cmd("save", 0, <<>>))
    /\ pc' = "done"
    /\ UNCHANGED <<args, img_cfg, i, wh, imgCache, figCache, rectCache, posCache,
                   imgGen, figGen, pillowChecked>>

Next ==
    /\ \/ CheckPillow
       \/ OpenCanvas
       \/ SetPageSize
       \/ DrawPage
       \/ ShowPage
       \/ Save
    /\ UNCHANGED <<wrapVars, sizeVars>>

Spec == Init /\ [][Next]_vars

----------------------------------------------------------------------------
(* wrap_lines on bounded texts.  A text, a word and a line are sequences   *)
(* of one-character strings.                                               *)

Alphabet == {"a", "b", " "}
Texts == UNION {[1..n -> Alphabet] : n \in 0..MaxTextLen}

\* str.split(): the maximal runs of non-blank characters
RECURSIVE SplitLoop(_, _, _)
SplitLoop(rest, cur, acc) ==
    IF rest = <<>> THEN (IF cur = <<>> THEN acc ELSE Append(acc, cur))
    ELSE IF Head(rest) = " "
         THEN SplitLoop(Tail(rest), <<>>, IF cur = <<>> THEN acc ELSE Append(acc, cur))
         ELSE SplitLoop(Tail(rest), Append(cur, Head(rest)), acc)

split(text) == SplitLoop(text, <<>>, <<>>)

\* " ".join(line)
RECURSIVE join(_)
join(line) ==
    IF line = <<>> THEN <<>>
    ELSE IF Len(line) = 1 THEN line[1]
    ELSE line[1] \o <<" ">> \o join(Tail(line))

\* faulty variant: the separator is not counted
WrapAddNoSeparator(w, line) == Len(w)

\* line 45
WrapAdd(w, line) == Len(w) + (IF line # <<>> THEN 1 ELSE 0)

\* lines 44-58: the loop over the remaining words, then the last line
RECURSIVE WrapLoop(_, _, _, _, _)
WrapLoop(words, max_chars, line, n, out) ==
    IF words = <<>> THEN (IF line # <<>> THEN Append(out, join(line)) ELSE out)
    ELSE LET w == Head(words)
             add == WrapAdd(w, line)
         IN  IF n + add > max_chars
             THEN WrapLoop(Tail(words), max_chars, <<w>>, Len(w), Append(out, join(line)))
             ELSE IF line # <<>>
                  THEN WrapLoop(Tail(words), max_chars, Append(line, w), n + add, out)
                  ELSE WrapLoop(Tail(words), max_chars, <<w>>, Len(w), out)

wrap_lines(text, max_chars) == WrapLoop(split(text), max_chars, <<>>, 0, <<>>)

IdleArgs ==
    [pages |-> 0, vary_sizes |-> FALSE, with_rects |-> FALSE, no_images |-> TRUE,
     images_per_page |-> 0, image_px |-> ImagePxArg, image_variants |-> 1,
     figure_complexity |-> 0, fast |-> FALSE, seed |-> 0, pillow |-> FALSE]

RunIdle ==
    /\ args = IdleArgs
    /\ img_cfg = ImageConfig(args)
    /\ pc = "idle"
    /\ i = 0
    /\ wh = <<0, 0>>
    /\ canvas = <<>>
    /\ imgCache = <<>> /\ figCache = <<>> /\ rectCache = <<>> /\ posCache = <<>>
    /\ imgGen = <<>> /\ figGen = <<>>
    /\ pillowChecked = FALSE

InitWrap ==
    /\ RunIdle /\ SizeIdle
    /\ wrapText \in Texts
    /\ wrapMax \in 1..MaxChars
    /\ wrapOut = <<>>
    /\ wrapDone = FALSE

\* list(wrap_lines(text, max_chars))
Wrap ==
    /\ ~wrapDone
    /\ wrapOut' = wrap_lines(wrapText, wrapMax)
    /\ wrapDone' = TRUE
    /\ UNCHANGED <<wrapText, wrapMax, runVars, sizeVars>>

NextWrap == Wrap

SpecWrap == InitWrap /\ [][NextWrap]_vars

----------------------------------------------------------------------------
(* page_size_for over the successive page indices 1, 2, ... *)

InitSize ==
    /\ RunIdle /\ WrapIdle
    /\ sizeVary \in BOOLEAN
    /\ sizeSeen = <<>>

NextIndex ==
    /\ Len(sizeSeen) < MaxIndex
    /\ sizeSeen' = Append(sizeSeen, page_size_for(Len(sizeSeen) + 1, sizeVary))
    /\ UNCHANGED <<sizeVary, runVars, wrapVars>>

NextSize == NextIndex

SpecSize == InitSize /\ [][NextSize]_vars

----------------------------------------------------------------------------
(* Properties *)

ImageCmds == {n \in 1..Len(canvas) : canvas[n].op = "drawImage"}
VariantsDrawn == {canvas[n].arg[1] : n \in ImageCmds}
CommitsBefore(n) == Cardinality({m \in 1..(n - 1) : canvas[m].op = "showPage"})
DrawnPages == {canvas[n].page : n \in {m \in 1..Len(canvas) : canvas[m].op = "title"}}
Finished == pc = "done"
FastImages == img_cfg.fast /\ img_cfg.enabled /\ img_cfg.per_page > 0

\* C1: over any run the body of _make_image_reader runs at most once for each key
\* (px, variant, seed), hence at most imageVariants times; no texture is evicted
\* and generated again.
C1_TextureOncePerKey ==
    /\ \A n, m \in 1..Len(imgGen) : n # m => imgGen[n] # imgGen[m]
    /\ Len(imgGen) <= img_cfg.variants

\* C2 as stated: in fast mode with images on and imagesPerPage > 0, a finished run
\* of N >= 1 pages has run the texture generator exactly imageVariants times.
C2_ExactlyImageVariants ==
    (Finished /\ FastImages /\ args.pages >= 1) => Len(imgGen) = img_cfg.variants

\* C2 as amended: in such a finished run the number of executions is at least the
\* number of distinct variants the pages' random streams drew (at least 1) and at
\* most N * imagesPerPage, and it equals that number of distinct variants
\* whenever it fits the cache (maxsize 8); it need not reach imageVariants.
C2_RunsOncePerVariantDrawn ==
    (Finished /\ FastImages /\ args.pages >= 1) =>
        /\ Cardinality(VariantsDrawn) >= 1
        /\ Len(imgGen) >= Cardinality(VariantsDrawn)
        /\ Len(imgGen) <= args.pages * img_cfg.per_page
        /\ Cardinality(VariantsDrawn) <= ImgCacheMaxsize
              => Len(imgGen) = Cardinality(VariantsDrawn)

C2_Witness ==
    /\ Finished /\ FastImages /\ args.pages >= 2
    /\ Len(imgGen) < img_cfg.variants
    /\ Len(imgGen) < args.pages * img_cfg.per_page

\* C3: with figureComplexity > 0 the body of _figure_variants has run exactly once
\* for each distinct page size used by a page drawn so far, and never twice for
\* one size.
C3_FigureOncePerSize ==
    args.figure_complexity > 0 =>
        /\ \A n, m \in 1..Len(figGen) : n # m => figGen[n] # figGen[m]
        /\ {<<figGen[n][1], figGen[n][2]>> : n \in 1..Len(figGen)}
              = {page_size_for(p, args.vary_sizes) : p \in DrawnPages}

C3_Witness ==
    /\ Finished /\ args.figure_complexity > 0 /\ args.vary_sizes
    /\ args.pages > 4 /\ Len(figGen) = 4

\* the commands of page `page` computed from the configuration and the index
\* alone: every generator is called directly, no cache is consulted
ExpectedPage(a, page) ==
    LET cfg == ImageConfig(a)
        sz == page_size_for(page, a.vary_sizes)
        w == sz[1]
        h == sz[2]
    IN  <<Cmd("setPageSize", page, sz)>>
        \o TextAndChart(page, w, h)
        \o (IF a.figure_complexity > 0
            THEN <<FigureCmd(page, figure_variants(w, h, a.figure_complexity,
                                                   FigVariants, a.seed))>>
            ELSE <<>>)
        \o (IF a.with_rects
            THEN <<Cmd("rects", page,
                       rects_for_size(w, h, IF a.fast THEN a.seed ELSE page))>>
            ELSE <<>>)
        \o (IF cfg.enabled
            THEN [s \in 1..cfg.per_page |->
                    ImageCmd(cfg, page, s - 1, w, h,
                             make_image_reader(cfg.px, PickVariant(cfg, page, s - 1),
                                               cfg.seed),
                             IF a.fast THEN image_positions(w, h, cfg.per_page, a.seed)
                             ELSE <<>>)]
            ELSE <<>>)
        \o <<Cmd("showPage", page, <<>>)>>

RECURSIVE ExpectedPages(_, _)
ExpectedPages(a, n) ==
    IF n <= 0 THEN <<>> ELSE ExpectedPages(a, n - 1) \o ExpectedPage(a, n)

ExpectedRun(a) ==
    <<Cmd("open", 0, page_size_for(1, a.vary_sizes) \o <<IF a.fast THEN 0 ELSE 1>>)>>
    \o ExpectedPages(a, a.pages)
    \o <<Cmd("save", 0, <<>>)>>

C5_LinesWithinBudget ==
    wrapDone =>
        /\ \A n \in 1..Len(wrapOut) :
              \/ Len(wrapOut[n]) <= wrapMax
              \/ /\ split(wrapOut[n]) = <<wrapOut[n]>>
                 /\ wrapOut[n] \in Range(split(wrapText))
        /\ \A w \in Range(split(wrapText)) : Len(w) > wrapMax => w \in Range(wrapOut)

C5_Witness ==
    /\ wrapDone
    /\ \E n, m \in 1..Len(wrapOut) :
          /\ Len(wrapOut[n]) > wrapMax
          /\ Len(split(wrapOut[m])) = 2

\* C6: with varySizes the sizes of pages 1..4 are pairwise distinct and the size
\* of page i equals that of page i + 4 for every i; without it every page has the
\* one base size.
C6_SizeCycle ==
    \A j, k \in 1..Len(sizeSeen) :
        /\ (sizeVary /\ k = j + 4) => sizeSeen[j] = sizeSeen[k]
        /\ (sizeVary /\ j < k /\ k <= 4) => sizeSeen[j] # sizeSeen[k]
        /\ ~sizeVary => (sizeSeen[j] = A4 /\ sizeSeen[j] = sizeSeen[k])

C6_Witness == sizeVary /\ Len(sizeSeen) >= 9

\* C7: the canvas is opened before anything is drawn; pages are committed in the
\* order 1, 2, ..., N, each once; page i's set-page-size, then its draws, then its
\* commit all come before anything of page i + 1; save happens once, after the
\* commit of page N, and nothing follows it.
C7_PageOrder ==
    /\ pc \in {"check", "open", "exit"} => canvas = <<>>
    /\ \A n \in 1..Len(canvas) :
          LET c == canvas[n] IN
          /\ (c.op = "open") = (n = 1)
          /\ c.op \notin {"open", "save"} => c.page = CommitsBefore(n) + 1
          /\ (c.op = "setPageSize") = (n > 1 /\ c.op # "save"
                                        /\ canvas[n - 1].op \in {"open", "showPage"})
          /\ c.op = "showPage" => canvas[n - 1].op \notin {"setPageSize", "open"}
          /\ c.op = "save" => /\ n = Len(canvas)
                              /\ Finished
                              /\ CommitsBefore(n) = Max(0, args.pages)
    /\ Finished => canvas[Len(canvas)].op = "save"

C7_Witness == Finished /\ args.pages > 2 /\ CommitsBefore(Len(canvas)) = args.pages

\* C8: with images enabled and Pillow missing the run stops in SystemExit with no
\* canvas opened and nothing drawn; with images disabled Pillow is never looked
\* for and the run never fails for its absence.
C8_MissingPillowFailsFirst ==
    /\ (img_cfg.enabled /\ ~args.pillow) => (pc \in {"check", "exit"} /\ canvas = <<>>)
    /\ ~img_cfg.enabled => (~pillowChecked /\ pc \notin {"exit", "crash"})

C8_Witness == pc = "exit" /\ img_cfg.enabled /\ ~args.pillow /\ pillowChecked

\* C9 as stated: in fast mode with imagesPerPage = 1 the image of page i
\* references variant i mod imageVariants.
C9_VariantIsIndexModVariants ==
    (img_cfg.fast /\ img_cfg.per_page = 1) =>
        \A n \in ImageCmds : canvas[n].arg[1] = canvas[n].page % img_cfg.variants

\* C9 as amended: in fast mode with imagesPerPage = 1 the image of page i
\* references the first randrange(imageVariants) of random.Random(seed + i*7919),
\* a value in 0..imageVariants-1 fixed by (seed, i, imageVariants).
C9_VariantIsPageStreamDraw ==
    (img_cfg.fast /\ img_cfg.per_page = 1) =>
        \A n \in ImageCmds :
            /\ canvas[n].arg[1] \in 0..(img_cfg.variants - 1)
            /\ canvas[n].arg[1] =
                 RandrangeRun[<<args.seed + canvas[n].page * 7919, img_cfg.variants>>][1]

C9_Witness ==
    /\ Finished /\ FastImages /\ img_cfg.per_page = 1
    /\ args.pages = 3 /\ img_cfg.variants = 2 /\ args.seed = 1
    /\ Cardinality(ImageCmds) = 3

\* C10: the lines of wrap_lines partition text.split() into consecutive non-empty
\* groups in order: no line is empty, no word is dropped, duplicated or moved,
\* and no words give no line.
C10_LinesPartitionWords ==
    wrapDone =>
        /\ \A n \in 1..Len(wrapOut) : wrapOut[n] # <<>>
        /\ split(join(wrapOut)) = split(wrapText)
        /\ split(wrapText) = <<>> => wrapOut = <<>>

====
